---- MODULE Spec2Model ----
(***************************************************************************)
(* Stripe2SevDesk connector (src/src/index.ts): one Cloud Function that    *)
(* receives Stripe webhook requests and pushes changes to the SevDesk API. *)
(*                                                                         *)
(* JavaScript runs each synchronous stretch of code to completion, so one  *)
(* action of this model is one such stretch: the body of `webhook` up to   *)
(* its end (including the synchronous prefix of the handler it calls), or  *)
(* the continuation that runs when one awaited external call settles.      *)
(* Every external call (Secret Manager, Stripe API, SevDesk API) settles   *)
(* either successfully or with a failure, chosen nondeterministically.     *)
(* Requests are processed one after the other.                             *)
(***************************************************************************)
EXTENDS Integers, Sequences, FiniteSets, TLC

\* ------------------------------------------------------------------ bounds
\* Number of webhook deliveries in one behaviour.
MaxRequests == 2
\* Longest invoice.lines.data of a delivered invoice.
MaxLines == 2

\* ------------------------------------------------------------ JS values
\* JavaScript null (the value the linkage tests compare against).
JsNull == -1
\* JavaScript undefined (a missing property, an omitted argument).
JsUndefined == 0
\* SevDesk ids are positive; this one is a linkage stored before the run.
ExistingId == JsUndefined + 1
\* First id SevDesk hands out in response.data.id during the run.
FirstFreshId == ExistingId + 1
\* process.env.SEVDESK_CHECK_ACCOUNT
SEVDESK_CHECK_ACCOUNT == 5

Customers == {"cus_1"}
Invoices == {"in_1"}
\* invoice.customer
InvoiceCustomer(i) == "cus_1"

\* `metadata` of a Stripe object, as far as the code looks at it: JsNull is
\* metadata === null, JsUndefined is a metadata object without a sevdesk_id
\* entry, a positive number is metadata.sevdesk_id.
MetaValues == {JsNull, JsUndefined, ExistingId}

\* metadata.sevdesk_id of a metadata object that is not null.
SevdeskIdOf(meta) == meta

\* Event types of the dispatch switch, plus one type no case names.
MatchedTypes == {"invoice.finalized", "invoice.paid", "invoice.voided",
                 "customer.created", "customer.updated"}
EventTypes == MatchedTypes \cup {"payout.paid", "charge.succeeded"}

\* line.tax_amounts.length of one invoice line: none, one, several.
TaxAmountCounts == {0, 1, 2}
LineLists == UNION {[1..n -> TaxAmountCounts] : n \in 0..MaxLines}
TaxExemptValues == {"none", "exempt", "reverse"}
AmountsPaid == {0, 1000}
\* customer.tax_ids: undefined/empty, or the type of the first entry.
TaxIdKinds == {"none", "eu_vat", "us_ein"}
\* stripeTaxRate.percentage delivered by a tax-rate lookup.
TaxPercentages == {0, 19}

VARIABLES
    pc,         \* where the request in progress is suspended
    req,        \* the request in progress: signature verdict and event
    nreq,       \* deliveries so far
    loc,        \* locals of the handler run in progress
    outcome,    \* settlement of the promise the handler returned
    responses,  \* calls of res.json / res.send, in order
    thrown,     \* errors thrown out of webhook or left unhandled
    calls,      \* external calls issued during this request, in order
    lookups,    \* tax-rate lookups of the finalize handler
    custMeta,   \* Stripe side: metadata of each customer
    invMeta,    \* Stripe side: metadata of each invoice
    sevdesk,    \* SevDesk side: contacts and invoices created, next id
    finalizedOk \* history: runs of onInvoiceFinalized that resolved, per invoice

vars == <<pc, req, nreq, loc, outcome, responses, thrown, calls, lookups,
          custMeta, invMeta, sevdesk, finalizedOk>>

NoRequest == [signed |-> FALSE, type |-> "none", customer |-> "none",
              invoice |-> "none", meta |-> JsNull, lines |-> <<>>,
              tax_exempt |-> "none", amount_paid |-> 0, tax_id |-> "none"]

\* `customer` is customer.metadata of the customer onInvoiceFinalized
\* retrieved, once `retrieved`.
NoLocals == [handler |-> "none", caller |-> "none",
             retrieved |-> FALSE, customer |-> JsNull,
             customerId |-> JsUndefined, contactId |-> JsUndefined,
             invoiceId |-> JsUndefined, responseId |-> JsUndefined,
             items |-> <<>>]

Pending == [state |-> "pending", error |-> "none"]
NotInvoked == [state |-> "none", error |-> "none"]
Resolved == [state |-> "resolved", error |-> "none"]
Rejected(e) == [state |-> "rejected", error |-> e]

NoLookups == [pending |-> {}, taxRate |-> <<>>, unhandled |-> {}]

Init ==
    /\ pc = "idle"
    /\ req = NoRequest
    /\ nreq = 0
    /\ loc = NoLocals
    /\ outcome = NotInvoked
    /\ responses = <<>>
    /\ thrown = {}
    /\ calls = <<>>
    /\ lookups = NoLookups
    /\ custMeta \in [Customers -> MetaValues]
    /\ invMeta \in [Invoices -> MetaValues]
    /\ sevdesk = [contacts |-> {}, invoices |-> {}, nextId |-> FirstFreshId]
    /\ finalizedOk = [i \in Invoices |-> 0]

\* ------------------------------------------------------- external calls
\* A call as issued; `status` and `returned` (response.data.id) are filled
\* in when it settles.
Call(op, id, body) == [op |-> op, id |-> id, body |-> body,
                       status |-> "pending", returned |-> JsUndefined]
NoBody == [empty |-> TRUE]

\* Call number k of cs settles, successfully or not.
Settled(cs, k, ok, returned) ==
    [cs EXCEPT ![k].status = IF ok THEN "ok" ELSE "failed",
               ![k].returned = returned]

SevDeskOps == {"POST /Contact", "PUT /Contact/{id}",
               "POST /Invoice/Factory/saveInvoice",
               "POST /Invoice/{id}/cancelInvoice",
               "PUT /Invoice/{id}/bookAmount"}
StripeOps == {"stripe.customers.retrieve", "stripe.customers.update",
              "stripe.invoices.update", "stripe.taxRates.retrieve"}

\* accessSecretVersion(process.env.SEVDESK_API_KEY_SECRET), started by
\* sevDeskClient() before its first await.
SecretCall == Call("secret", JsUndefined, NoBody)

\* --------------------------------------------------------- HTTP response
Response(status, body) == [status |-> status, body |-> body]
BadSignature == Response(400, "error:true")
NotSupported == Response(400, "Event type not supported")
Received == Response(200, "received:true")
ServerError == Response(500, "error:true")

\* res.json / res.send on a response whose headers were already sent throws
\* ERR_HTTP_HEADERS_SENT instead of reaching the client.
HeadersSent(rs) == Len(rs) > 0

\* ------------------------------------------------------ webhook, dispatch
\* Mutant: the signature check accepts every request.
SignatureVerifiesAlways(r) == TRUE
\* stripe.webhooks.constructEvent returns the event or throws.
SignatureVerifies(r) == r.signed

\* The linkage test of onInvoiceVoided, onInvoicePaid and onCustomerUpdated:
\* null === x.metadata || null === x.metadata.sevdesk_id
LinkMissing(meta) == meta = JsNull \/ SevdeskIdOf(meta) = JsNull

\* Mutant: an invoice that already carries a linkage id is not created
\* again.
StartFinalizedOnce(r) ==
    IF r.meta # JsNull /\ r.meta # JsUndefined
    THEN /\ loc' = [NoLocals EXCEPT !.handler = "onInvoiceFinalized"]
         /\ outcome' = Resolved
         /\ calls' = <<>>
         /\ pc' = "settling"
    ELSE /\ loc' = [NoLocals EXCEPT !.handler = "onInvoiceFinalized"]
         /\ outcome' = Pending
         /\ calls' = <<SecretCall>>
         /\ pc' = "finalized_secret"

\* Synchronous prefix of onInvoiceFinalized: sevDeskClient() is called and
\* awaited.
StartFinalized(r) ==
    /\ loc' = [NoLocals EXCEPT !.handler = "onInvoiceFinalized"]
    /\ outcome' = Pending
    /\ calls' = <<SecretCall>>
    /\ pc' = "finalized_secret"

\* Synchronous prefix of onInvoicePaid / onInvoiceVoided.
StartPaidOrVoided(r, name, next) ==
    IF LinkMissing(r.meta)
    THEN /\ loc' = [NoLocals EXCEPT !.handler = name]
         /\ outcome' = Rejected("No SevDesk link found.")
         /\ calls' = <<>>
         /\ pc' = "settling"
    ELSE /\ loc' = [NoLocals EXCEPT !.handler = name,
                                    !.invoiceId = SevdeskIdOf(r.meta)]
         /\ outcome' = Pending
         /\ calls' = <<SecretCall>>
         /\ pc' = next

\* onCustomerUpdated, and the synchronous prefix of the createOrUpdateContact
\* it calls (sevDeskClient() is called and awaited).
StartCustomerUpdated(r) ==
    /\ loc' = [NoLocals EXCEPT
                 !.handler = "onCustomerUpdated",
                 !.caller = "onCustomerUpdated",
                 !.customerId = IF LinkMissing(r.meta) THEN JsUndefined
                                ELSE SevdeskIdOf(r.meta)]
    /\ outcome' = Pending
    /\ calls' = <<SecretCall>>
    /\ pc' = "contact_secret"

\* A case of the switch that calls no handler (payout.paid), or no case.
StartNothing ==
    /\ loc' = NoLocals
    /\ outcome' = NotInvoked
    /\ calls' = <<>>
    /\ pc' = "done"

\* Mutant: a default case that treats every other type as a customer event.
DispatchWithDefault(r) ==
    CASE r.type = "invoice.finalized" -> StartFinalized(r)
      [] r.type = "invoice.paid" ->
            StartPaidOrVoided(r, "onInvoicePaid", "paid_secret")
      [] r.type = "invoice.voided" ->
            StartPaidOrVoided(r, "onInvoiceVoided", "voided_secret")
      [] OTHER -> StartCustomerUpdated(r)

\* switch (event.type)
Dispatch(r) ==
    CASE r.type = "invoice.finalized" -> StartFinalized(r)
      [] r.type = "invoice.paid" ->
            StartPaidOrVoided(r, "onInvoicePaid", "paid_secret")
      [] r.type = "invoice.voided" ->
            StartPaidOrVoided(r, "onInvoiceVoided", "voided_secret")
      [] r.type \in {"customer.created", "customer.updated"} ->
            StartCustomerUpdated(r)
      [] OTHER -> StartNothing

\* The requests that can arrive now: any body with a bad signature, or a
\* signed event carrying the current Stripe object.
Requests ==
    {[NoRequest EXCEPT !.type = t] : t \in EventTypes}
    \cup
    {[NoRequest EXCEPT !.signed = TRUE, !.type = "invoice.finalized",
                       !.invoice = i, !.customer = InvoiceCustomer(i),
                       !.meta = invMeta[i], !.lines = l, !.tax_exempt = x]
        : <<i, l, x>> \in Invoices \X LineLists \X TaxExemptValues}
    \cup
    {[NoRequest EXCEPT !.signed = TRUE, !.type = t,
                       !.invoice = i, !.customer = InvoiceCustomer(i),
                       !.meta = invMeta[i], !.amount_paid = a]
        : <<t, i, a>> \in {"invoice.paid", "invoice.voided"} \X Invoices
                          \X AmountsPaid}
    \cup
    {[NoRequest EXCEPT !.signed = TRUE, !.type = t, !.customer = c,
                       !.meta = custMeta[c], !.tax_id = k]
        : <<t, c, k>> \in {"customer.created", "customer.updated"}
                          \X Customers \X TaxIdKinds}
    \cup
    {[NoRequest EXCEPT !.signed = TRUE, !.type = t]
        : t \in EventTypes \ MatchedTypes}

\* The body of `webhook`, run to its end.
Webhook ==
    /\ pc \in {"idle", "done"}
    /\ nreq < MaxRequests
    /\ lookups.pending = {}
    /\ \E r \in Requests :
        /\ req' = r
        /\ nreq' = nreq + 1
        /\ lookups' = NoLookups
        /\ IF ~SignatureVerifies(r)
           THEN \* catch: res.status(400).json(...); return
                /\ responses' = <<BadSignature>>
                /\ thrown' = {}
                /\ StartNothing
           ELSE \* the switch, then the statements after it
                /\ Dispatch(r)
                /\ responses' = <<NotSupported>>
                /\ thrown' = {"Unhandled event type"}
    /\ UNCHANGED <<finalizedOk, custMeta, invMeta, sevdesk>>

\* .then(() => res.json({received: true})).catch(error => handleError(res, error))
\* once the handler's promise has settled.
Respond ==
    /\ pc = "settling"
    /\ pc' = "done"
    /\ LET afterThen ==
             IF outcome.state = "resolved"
             THEN Append(responses, Received) ELSE responses
           \* handleError runs when the handler rejected or res.json threw
           failed == outcome.state = "rejected"
                     \/ (outcome.state = "resolved" /\ HeadersSent(responses))
       IN  IF failed
           THEN /\ responses' = Append(afterThen, ServerError)
                /\ thrown' = thrown \cup
                     {IF HeadersSent(afterThen) THEN "ERR_HTTP_HEADERS_SENT"
                      ELSE "An error occurred"}
           ELSE /\ responses' = afterThen
                /\ thrown' = thrown
    /\ finalizedOk' =
         IF loc.handler = "onInvoiceFinalized" /\ outcome.state = "resolved"
         THEN [finalizedOk EXCEPT ![req.invoice] = @ + 1]
         ELSE finalizedOk
    /\ UNCHANGED <<req, nreq, loc, outcome, calls, lookups, custMeta,
                   invMeta, sevdesk>>

\* ----------------------------------------------------- handler plumbing
\* The handler's promise rejects with e.
Reject(e) ==
    /\ outcome' = Rejected(e)
    /\ pc' = "settling"

\* The handler's promise resolves.
Resolve ==
    /\ outcome' = Resolved
    /\ pc' = "settling"

\* The call the handler is suspended on is the last one it issued.
AwaitedSettled(ok, returned) == Settled(calls, Len(calls), ok, returned)

\* --------------------------------------------------- onInvoiceFinalized
\* Mutant: the test of the other handlers (null === ...) copied unchanged.
HasLinkInverted(meta) == meta = JsNull \/ SevdeskIdOf(meta) = JsNull
\* null !== customer.metadata && null !== customer.metadata.sevdesk_id
HasLink(meta) == meta # JsNull /\ SevdeskIdOf(meta) # JsNull

\* line.tax_amounts.length > 1
MultipleTaxRates(n) == n > 1

\* Lines the map callback runs for: all of them, or up to and including
\* the first one it throws on.
ThrowingLines(lines) == {i \in DOMAIN lines : MultipleTaxRates(lines[i])}
FirstThrowing(lines) ==
    CHOOSE i \in ThrowingLines(lines) : \A j \in ThrowingLines(lines) : i <= j
MappedLines(lines) ==
    IF ThrowingLines(lines) = {} THEN DOMAIN lines
    ELSE 1..FirstThrowing(lines)

\* Lines for which stripe.taxRates.retrieve is started: tax_amounts is
\* non-empty and the callback did not throw.
LookupLines(lines) ==
    {i \in MappedLines(lines) : lines[i] > 0 /\ ~MultipleTaxRates(lines[i])}

RECURSIVE LookupCalls(_, _)
LookupCalls(lines, i) ==
    IF i > Len(lines) THEN <<>>
    ELSE (IF i \in LookupLines(lines)
          THEN <<Call("stripe.taxRates.retrieve", i, NoBody)>> ELSE <<>>)
         \o LookupCalls(lines, i + 1)

\* taxRate ? taxRate / 100 : null, the quotient in units of 1/10000.
RateUnits == 100 * 100
ItemTaxRate(taxRate) ==
    IF taxRate # JsNull /\ taxRate # 0
    THEN (taxRate * RateUnits) \div 100 ELSE JsNull

\* Mutant: the item is built from the rate the lookup delivers.
InvoiceItemWithRate(lines, i) ==
    [taxRate |-> ItemTaxRate(IF lines[i] = 1 THEN 19 ELSE JsNull), line |-> i]

\* The object the map callback returns for a line; `let taxRate = null` is
\* still null when it is read, the lookup's .then runs later.
InvoiceItem(lines, i) == [taxRate |-> ItemTaxRate(JsNull), line |-> i]

\* Mutant: the two special cases exchanged.
InvoiceTaxTypeSwapped(x) ==
    IF x = "exempt" THEN "noteu" ELSE IF x = "reverse" THEN "eu" ELSE "default"

\* invoice.customer_tax_exempt === 'exempt' ? 'eu' : (... === 'reverse' ? 'noteu' : 'default')
InvoiceTaxType(x) ==
    IF x = "exempt" THEN "eu" ELSE IF x = "reverse" THEN "noteu" ELSE "default"

SaveInvoiceCall(contactId, items) ==
    Call("POST /Invoice/Factory/saveInvoice", JsUndefined,
         [contact |-> contactId, taxType |-> InvoiceTaxType(req.tax_exempt),
          invoicePosSave |-> items])

\* Mutant: every lookup is awaited before the request is built.
MapLinesAndPostAwaiting(contactId, cs, l) ==
    LET lines == req.lines
        items == [i \in DOMAIN lines |->
                    [taxRate |-> ItemTaxRate(IF i \in LookupLines(lines)
                                             THEN 19 ELSE JsNull),
                     line |-> i]]
    IN  /\ lookups' = [pending |-> {},
                       taxRate |-> [i \in MappedLines(lines) |->
                                      IF i \in LookupLines(lines)
                                      THEN 19 ELSE JsNull],
                       unhandled |-> {}]
        /\ IF ThrowingLines(lines) # {}
           THEN /\ calls' = cs \o LookupCalls(lines, 1)
                /\ loc' = [l EXCEPT !.contactId = contactId]
                /\ Reject("Multiple tax rates per item are not supported.")
           ELSE /\ calls' = (cs \o LookupCalls(lines, 1))
                              \o <<SaveInvoiceCall(contactId, items)>>
                /\ loc' = [l EXCEPT !.contactId = contactId,
                                    !.items = items]
                /\ outcome' = outcome
                /\ pc' = "invoice_post"

\* Lines 100-149 of onInvoiceFinalized, run once contactId is known: map
\* the lines (starting the lookups), then start the creation call. cs and l
\* are the call log and the locals the continuation starts from.
MapLinesAndPost(contactId, cs, l) ==
    LET lines == req.lines
        items == [i \in DOMAIN lines |-> InvoiceItem(lines, i)]
    IN  /\ lookups' = [pending |-> LookupLines(lines),
                       taxRate |-> [i \in MappedLines(lines) |-> JsNull],
                       unhandled |-> {}]
        /\ IF ThrowingLines(lines) # {}
           THEN /\ calls' = cs \o LookupCalls(lines, 1)
                /\ loc' = [l EXCEPT !.contactId = contactId]
                /\ Reject("Multiple tax rates per item are not supported.")
           ELSE /\ calls' = (cs \o LookupCalls(lines, 1))
                              \o <<SaveInvoiceCall(contactId, items)>>
                /\ loc' = [l EXCEPT !.contactId = contactId,
                                    !.items = items]
                /\ outcome' = outcome
                /\ pc' = "invoice_post"

\* await sevDeskClient() settles; stripe.customers.retrieve is started.
FinalizedClientReady ==
    /\ pc = "finalized_secret"
    /\ \E ok \in BOOLEAN :
        IF ok
        THEN /\ calls' = Append(AwaitedSettled(TRUE, JsUndefined),
                    Call("stripe.customers.retrieve", JsUndefined,
                         [customer |-> req.customer]))
             /\ pc' = "finalized_retrieve"
             /\ outcome' = outcome
        ELSE /\ calls' = AwaitedSettled(FALSE, JsUndefined)
             /\ Reject("secret")
    /\ UNCHANGED <<finalizedOk, req, nreq, loc, responses, thrown, lookups, custMeta,
                   invMeta, sevdesk>>

\* await stripe.customers.retrieve settles; the contact id is resolved from
\* the customer's metadata or createOrUpdateContact(customer) is called.
FinalizedCustomerRetrieved ==
    /\ pc = "finalized_retrieve"
    /\ \E ok \in BOOLEAN :
        IF ok
        THEN LET meta == custMeta[req.customer]
                 got == [loc EXCEPT !.retrieved = TRUE, !.customer = meta]
             IN  IF HasLink(meta)
                 THEN MapLinesAndPost(SevdeskIdOf(meta),
                                      AwaitedSettled(TRUE, JsUndefined), got)
                 ELSE /\ loc' = [got EXCEPT
                                   !.caller = "onInvoiceFinalized",
                                   !.customerId = JsUndefined]
                      /\ calls' = Append(AwaitedSettled(TRUE, JsUndefined),
                                         SecretCall)
                      /\ pc' = "contact_secret"
                      /\ UNCHANGED <<finalizedOk, outcome, lookups>>
        ELSE /\ calls' = AwaitedSettled(FALSE, JsUndefined)
             /\ Reject("stripe")
             /\ UNCHANGED <<finalizedOk, loc, lookups>>
    /\ UNCHANGED <<finalizedOk, req, nreq, responses, thrown, custMeta, invMeta, sevdesk>>

\* Mutant: the failure of the creation call is swallowed and the write-back
\* is started all the same.
InvoicePostedIgnoringFailure ==
    /\ pc = "invoice_post"
    /\ \E ok \in BOOLEAN :
        /\ sevdesk' = IF ok
                      THEN [sevdesk EXCEPT
                              !.invoices = @ \cup {sevdesk.nextId},
                              !.nextId = @ + 1]
                      ELSE sevdesk
        /\ loc' = [loc EXCEPT !.responseId =
                      IF ok THEN sevdesk.nextId ELSE JsUndefined]
        /\ calls' = Append(AwaitedSettled(ok, IF ok THEN sevdesk.nextId
                                              ELSE JsUndefined),
               Call("stripe.invoices.update",
                    IF ok THEN sevdesk.nextId ELSE JsUndefined,
                    [invoice |-> req.invoice]))
        /\ pc' = "invoice_writeback"
        /\ outcome' = outcome
    /\ UNCHANGED <<finalizedOk, req, nreq, responses, thrown, lookups, custMeta, invMeta>>

\* await client.post('/Invoice/Factory/saveInvoice') settles; on success
\* stripe.invoices.update is started with the returned id.
InvoicePosted ==
    /\ pc = "invoice_post"
    /\ \E ok \in BOOLEAN :
        IF ok
        THEN /\ sevdesk' = [sevdesk EXCEPT
                              !.invoices = @ \cup {sevdesk.nextId},
                              !.nextId = @ + 1]
             /\ loc' = [loc EXCEPT !.responseId = sevdesk.nextId]
             /\ calls' = Append(AwaitedSettled(TRUE, sevdesk.nextId),
                    Call("stripe.invoices.update", sevdesk.nextId,
                         [invoice |-> req.invoice]))
             /\ pc' = "invoice_writeback"
             /\ outcome' = outcome
        ELSE /\ calls' = AwaitedSettled(FALSE, JsUndefined)
             /\ Reject("axios")
             /\ UNCHANGED <<finalizedOk, sevdesk, loc>>
    /\ UNCHANGED <<finalizedOk, req, nreq, responses, thrown, lookups, custMeta, invMeta>>

\* await stripe.invoices.update settles; the handler returns the response
\* or the catch block rejects with the error.
InvoiceWrittenBack ==
    /\ pc = "invoice_writeback"
    /\ \E ok \in BOOLEAN :
        IF ok
        THEN /\ invMeta' = [invMeta EXCEPT ![req.invoice] = loc.responseId]
             /\ calls' = AwaitedSettled(TRUE, JsUndefined)
             /\ Resolve
        ELSE /\ invMeta' = invMeta
             /\ calls' = AwaitedSettled(FALSE, JsUndefined)
             /\ Reject("stripe")
    /\ UNCHANGED <<finalizedOk, req, nreq, loc, responses, thrown, lookups, custMeta,
                   sevdesk>>

\* The call that started the lookup of line i.
LookupCallOf(i) ==
    CHOOSE k \in DOMAIN calls :
        calls[k].op = "stripe.taxRates.retrieve" /\ calls[k].id = i

\* A tax-rate lookup settles: its .then assigns the callback's taxRate, or
\* its rejection has no handler.
TaxRateSettled ==
    /\ \E i \in lookups.pending :
        \/ /\ \E p \in TaxPercentages :
                lookups' = [lookups EXCEPT !.pending = @ \ {i},
                                           !.taxRate[i] = p]
           /\ calls' = Settled(calls, LookupCallOf(i), TRUE, JsUndefined)
        \/ /\ lookups' = [lookups EXCEPT !.pending = @ \ {i},
                                         !.unhandled = @ \cup {i}]
           /\ calls' = Settled(calls, LookupCallOf(i), FALSE, JsUndefined)
    /\ UNCHANGED <<finalizedOk, pc, req, nreq, loc, outcome, responses, thrown,
                   custMeta, invMeta, sevdesk>>

\* ------------------------------------------------ createOrUpdateContact
\* Mutant: the VAT fields are set for an EU VAT id only and left out
\* otherwise.
ContactDataWithoutClearing(kind) ==
    IF kind = "eu_vat"
    THEN [customer |-> req.customer, vatNumber |-> "value", taxType |-> "eu"]
    ELSE [customer |-> req.customer, vatNumber |-> "absent",
          taxType |-> "absent"]

\* The `data` object, as far as it depends on customer.tax_ids.
ContactData(kind) ==
    IF kind = "none"
    THEN [customer |-> req.customer, vatNumber |-> "absent",
          taxType |-> "absent"]
    ELSE [customer |-> req.customer,
          vatNumber |-> IF kind = "eu_vat" THEN "value" ELSE "null",
          taxType |-> IF kind = "eu_vat" THEN "eu" ELSE "null"]

\* Mutant: the omitted argument is tested against null.
CreatesContactIfNull(customerId) == customerId = JsNull
\* Mutant: the contact is created whatever customerId is.
CreatesContactAlways(customerId) == TRUE
\* typeof customerId === "undefined"
CreatesContact(customerId) == customerId = JsUndefined

\* What createOrUpdateContact's promise resolves to: on the create path the
\* value of stripe.customers.update (a Stripe customer, which has no `data`),
\* not the Axios response of client.post.
CreateResult == "StripeCustomer"
\* Mutant: createOrUpdateContact hands back something with a `data`, so
\* the finalize handler goes on after creating the contact.
HasDataAlways(result) == TRUE
\* contact.data is defined
HasData(result) == result = "AxiosResponse"

\* await sevDeskClient() settles; client.post or client.put is started.
ContactClientReady ==
    /\ pc = "contact_secret"
    /\ \E ok \in BOOLEAN :
        IF ok
        THEN IF CreatesContact(loc.customerId)
             THEN /\ calls' = Append(AwaitedSettled(TRUE, JsUndefined),
                         Call("POST /Contact", JsUndefined,
                              ContactData(req.tax_id)))
                  /\ pc' = "contact_post"
                  /\ outcome' = outcome
             ELSE /\ calls' = Append(AwaitedSettled(TRUE, JsUndefined),
                         Call("PUT /Contact/{id}", loc.customerId,
                              ContactData(req.tax_id)))
                  /\ pc' = "contact_put"
                  /\ outcome' = outcome
        ELSE /\ calls' = AwaitedSettled(FALSE, JsUndefined)
             /\ Reject("secret")
    /\ UNCHANGED <<finalizedOk, req, nreq, loc, responses, thrown, lookups, custMeta,
                   invMeta, sevdesk>>

\* client.post('/Contact') settles; on success its .then starts
\* stripe.customers.update with response.data.id.
ContactPosted ==
    /\ pc = "contact_post"
    /\ \E ok \in BOOLEAN :
        IF ok
        THEN /\ sevdesk' = [sevdesk EXCEPT
                              !.contacts = @ \cup {sevdesk.nextId},
                              !.nextId = @ + 1]
             /\ loc' = [loc EXCEPT !.responseId = sevdesk.nextId]
             /\ calls' = Append(AwaitedSettled(TRUE, sevdesk.nextId),
                    Call("stripe.customers.update", sevdesk.nextId,
                         [customer |-> req.customer]))
             /\ pc' = "contact_writeback"
             /\ outcome' = outcome
        ELSE /\ calls' = AwaitedSettled(FALSE, JsUndefined)
             /\ Reject("axios")
             /\ UNCHANGED <<finalizedOk, sevdesk, loc>>
    /\ UNCHANGED <<finalizedOk, req, nreq, responses, thrown, lookups, custMeta, invMeta>>

\* stripe.customers.update settles and with it createOrUpdateContact: the
\* customer handler returns it, the finalize handler reads contact.data.id.
ContactWrittenBack ==
    /\ pc = "contact_writeback"
    /\ \E ok \in BOOLEAN :
        IF ok
        THEN /\ custMeta' = [custMeta EXCEPT ![req.customer] = loc.responseId]
             /\ IF loc.caller = "onInvoiceFinalized"
                THEN IF HasData(CreateResult)
                     THEN MapLinesAndPost(loc.responseId,
                              AwaitedSettled(TRUE, JsUndefined), loc)
                     ELSE /\ calls' = AwaitedSettled(TRUE, JsUndefined)
                          /\ Reject("TypeError")
                          /\ UNCHANGED <<finalizedOk, loc, lookups>>
                ELSE /\ calls' = AwaitedSettled(TRUE, JsUndefined)
                     /\ Resolve
                     /\ UNCHANGED <<finalizedOk, loc, lookups>>
        ELSE /\ custMeta' = custMeta
             /\ calls' = AwaitedSettled(FALSE, JsUndefined)
             /\ Reject("stripe")
             /\ UNCHANGED <<finalizedOk, loc, lookups>>
    /\ UNCHANGED <<finalizedOk, req, nreq, responses, thrown, invMeta, sevdesk>>

\* client.put(`/Contact/${customerId}`) settles.
ContactPut ==
    /\ pc = "contact_put"
    /\ \E ok \in BOOLEAN :
        /\ calls' = AwaitedSettled(ok, JsUndefined)
        /\ IF ok THEN Resolve ELSE Reject("axios")
    /\ UNCHANGED <<finalizedOk, req, nreq, loc, responses, thrown, lookups, custMeta,
                   invMeta, sevdesk>>

\* ------------------------------------------ onInvoicePaid, onInvoiceVoided
\* Mutant: the booking carries no amount.
BookAmountCallWithoutAmount(invoiceId) ==
    Call("PUT /Invoice/{id}/bookAmount", invoiceId,
         [amount |-> 0, checkAccount |-> SEVDESK_CHECK_ACCOUNT])

BookAmountCall(invoiceId) ==
    Call("PUT /Invoice/{id}/bookAmount", invoiceId,
         [amount |-> req.amount_paid, checkAccount |-> SEVDESK_CHECK_ACCOUNT])

CancelInvoiceCall(invoiceId) ==
    Call("POST /Invoice/{id}/cancelInvoice", invoiceId, NoBody)

\* Mutant: a key kept from an earlier construction is used when the
\* retrieval fails.
PaidClientReadyWithCachedKey ==
    /\ pc = "paid_secret"
    /\ \E ok \in BOOLEAN :
        /\ calls' = Append(AwaitedSettled(ok, JsUndefined),
                           BookAmountCall(loc.invoiceId))
        /\ pc' = "paid_put"
        /\ outcome' = outcome
    /\ UNCHANGED <<finalizedOk, req, nreq, loc, responses, thrown, lookups,
                   custMeta, invMeta, sevdesk>>

\* await sevDeskClient() settles in onInvoicePaid; client.put is started.
PaidClientReady ==
    /\ pc = "paid_secret"
    /\ \E ok \in BOOLEAN :
        IF ok
        THEN /\ calls' = Append(AwaitedSettled(TRUE, JsUndefined),
                                BookAmountCall(loc.invoiceId))
             /\ pc' = "paid_put"
             /\ outcome' = outcome
        ELSE /\ calls' = AwaitedSettled(FALSE, JsUndefined)
             /\ Reject("secret")
    /\ UNCHANGED <<finalizedOk, req, nreq, loc, responses, thrown, lookups, custMeta,
                   invMeta, sevdesk>>

\* client.put(`/Invoice/${invoiceId}/bookAmount`) settles.
BookAmountSettled ==
    /\ pc = "paid_put"
    /\ \E ok \in BOOLEAN :
        /\ calls' = AwaitedSettled(ok, JsUndefined)
        /\ IF ok THEN Resolve ELSE Reject("axios")
    /\ UNCHANGED <<finalizedOk, req, nreq, loc, responses, thrown, lookups, custMeta,
                   invMeta, sevdesk>>

\* await sevDeskClient() settles in onInvoiceVoided; client.post is started.
VoidedClientReady ==
    /\ pc = "voided_secret"
    /\ \E ok \in BOOLEAN :
        IF ok
        THEN /\ calls' = Append(AwaitedSettled(TRUE, JsUndefined),
                                CancelInvoiceCall(loc.invoiceId))
             /\ pc' = "voided_post"
             /\ outcome' = outcome
        ELSE /\ calls' = AwaitedSettled(FALSE, JsUndefined)
             /\ Reject("secret")
    /\ UNCHANGED <<finalizedOk, req, nreq, loc, responses, thrown, lookups, custMeta,
                   invMeta, sevdesk>>

\* client.post(`/Invoice/${invoiceId}/cancelInvoice`) settles.
CancelSettled ==
    /\ pc = "voided_post"
    /\ \E ok \in BOOLEAN :
        /\ calls' = AwaitedSettled(ok, JsUndefined)
        /\ IF ok THEN Resolve ELSE Reject("axios")
    /\ UNCHANGED <<finalizedOk, req, nreq, loc, responses, thrown, lookups, custMeta,
                   invMeta, sevdesk>>

\* ------------------------------------------------------- specification
Next ==
    \/ Webhook
    \/ Respond
    \/ FinalizedClientReady
    \/ FinalizedCustomerRetrieved
    \/ InvoicePosted
    \/ InvoiceWrittenBack
    \/ TaxRateSettled
    \/ ContactClientReady
    \/ ContactPosted
    \/ ContactWrittenBack
    \/ ContactPut
    \/ PaidClientReady
    \/ BookAmountSettled
    \/ VoidedClientReady
    \/ CancelSettled

Spec == Init /\ [][Next]_vars

\* ================================================================ claims
CallsOf(op) == {k \in DOMAIN calls : calls[k].op = op}
SevDeskCalls == {k \in DOMAIN calls : calls[k].op \in SevDeskOps}
StripeCalls == {k \in DOMAIN calls : calls[k].op \in StripeOps}
ResponsesSent == {responses[k] : k \in DOMAIN responses}
\* A Stripe object without a linkage id: metadata absent, or metadata
\* present without a sevdesk_id entry.
NoLinkage(meta) == meta = JsNull \/ meta = JsUndefined
\* A request has been delivered and is the current one.
Delivered == req.type # "none"

\* C1: for a signed event of one of the five handled types, no response is
\* sent while the handler is still pending; once the request is over the
\* response is 200 {received:true} if the handler resolved and 500
\* {error:true, message} if it failed.
C1_RespondsAfterSettlement ==
    (req.signed /\ req.type \in MatchedTypes) =>
        /\ (outcome.state = "pending" => responses = <<>>)
        /\ (pc = "done" /\ outcome.state = "resolved"
                => responses = <<Received>>)
        /\ (pc = "done" /\ outcome.state = "rejected"
                => responses = <<ServerError>>)

\* C2: the 'Event type not supported' response and the 'Unhandled event
\* type' error appear only for an event type that matched no case of the
\* switch, and a request gets at most one response.
C2_FallThroughOnlyUnmatched ==
    Delivered =>
        /\ (NotSupported \in ResponsesSent \/ "Unhandled event type" \in thrown)
               => req.type \notin (MatchedTypes \cup {"payout.paid"})
        /\ Len(responses) <= 1

\* C3: a request whose signature does not verify gets exactly one response,
\* the 400 {error:true, message}, and nothing else happens: no handler, no
\* secret retrieval, no SevDesk or Stripe call, no error thrown.
C3_BadSignatureOnlyResponds ==
    (Delivered /\ ~req.signed) =>
        /\ responses = <<BadSignature>>
        /\ loc.handler = "none"
        /\ outcome = NotInvoked
        /\ calls = <<>>
        /\ lookups.pending = {}
        /\ thrown = {}
        /\ pc = "done"
C3_Witness ==
    /\ ~req.signed
    /\ req.type = "invoice.finalized"
    /\ responses = <<BadSignature>>
    /\ nreq > 1

\* C4: every step taken for a request that is unsigned, or whose event type
\* is none of the five handled ones, invokes no handler and leaves the
\* sevdesk_id metadata of every customer and invoice as it was.
C4_UnsupportedLeavesLinkage ==
    [][(req'.type # "none"
         /\ (~req'.signed \/ req'.type \notin MatchedTypes))
        => /\ loc'.handler = "none"
           /\ outcome' = NotInvoked
           /\ calls' = <<>>
           /\ pc' = "done"
           /\ custMeta' = custMeta
           /\ invMeta' = invMeta]_vars
C4_Witness ==
    /\ req.signed
    /\ req.type = "charge.succeeded"
    /\ pc = "done"
    /\ \E c \in Customers : custMeta[c] >= FirstFreshId

\* C5: a signed payout.paid event is a no-op: no handler, no external call,
\* no 'Event type not supported' response, no unhandled-event error.
C5_PayoutIsNoOp ==
    (req.signed /\ req.type = "payout.paid") =>
        /\ loc.handler = "none"
        /\ calls = <<>>
        /\ NotSupported \notin ResponsesSent
        /\ "Unhandled event type" \notin thrown

\* C6: when the customer of a finalized invoice has no linkage id, every
\* invoice-creation call is preceded by exactly one contact-creation call,
\* and its contact reference is the id that creation returned.
C6_ContactCreatedBeforeInvoice ==
    (loc.handler = "onInvoiceFinalized" /\ loc.retrieved
        /\ NoLinkage(loc.customer)) =>
        \A s \in CallsOf("POST /Invoice/Factory/saveInvoice") :
            /\ Cardinality(CallsOf("POST /Contact")) = 1
            /\ \E p \in CallsOf("POST /Contact") :
                /\ p < s
                /\ calls[p].status = "ok"
                /\ calls[s].body.contact = calls[p].returned

\* C7: when the customer of a finalized invoice has a linkage id, the run
\* makes no contact-creation call and no customer write-back, and every
\* invoice-creation call refers to that id as its contact.
C7_LinkedCustomerReused ==
    (loc.handler = "onInvoiceFinalized" /\ loc.retrieved
        /\ ~NoLinkage(loc.customer)) =>
        /\ CallsOf("POST /Contact") = {}
        /\ CallsOf("PUT /Contact/{id}") = {}
        /\ CallsOf("stripe.customers.update") = {}
        /\ custMeta[req.customer] = loc.customer
        /\ \A s \in CallsOf("POST /Invoice/Factory/saveInvoice") :
               calls[s].body.contact = loc.customer
        /\ (outcome.state = "resolved"
               => Cardinality(CallsOf("POST /Invoice/Factory/saveInvoice")) = 1)
C7_Witness ==
    /\ loc.handler = "onInvoiceFinalized"
    /\ loc.retrieved
    /\ loc.customer = ExistingId
    /\ outcome.state = "resolved"
    /\ \E s \in CallsOf("POST /Invoice/Factory/saveInvoice") :
           calls[s].body.contact = ExistingId /\ calls[s].status = "ok"

\* C8: a finalized invoice with a line item of two or more tax rates makes
\* the handler fail before any SevDesk call, whatever the customer's state:
\* no contact, no invoice, no linkage write-back.
C8_MultipleTaxRatesAbortFirst ==
    (loc.handler = "onInvoiceFinalized"
        /\ \E i \in DOMAIN req.lines : req.lines[i] >= 2) =>
        /\ SevDeskCalls = {}
        /\ CallsOf("stripe.customers.update") = {}
        /\ CallsOf("stripe.invoices.update") = {}
        /\ outcome.state # "resolved"

\* C9: the paid and the voided handler, given an invoice without a linkage
\* id, fail with 'No SevDesk link found.' and make no SevDesk call.
C9_NoLinkNoCall ==
    (loc.handler \in {"onInvoicePaid", "onInvoiceVoided"}
        /\ NoLinkage(req.meta)) =>
        /\ SevDeskCalls = {}
        /\ (pc = "done" => outcome = Rejected("No SevDesk link found."))

\* C10: a customer.created / customer.updated event for a customer without
\* a linkage id makes one contact-creation call and then one write-back of
\* the id that creation returned into the customer's sevdesk_id; a failed
\* creation is followed by no write-back.
C10_CreateThenWriteBack ==
    (loc.handler = "onCustomerUpdated" /\ NoLinkage(req.meta)) =>
        LET posts == CallsOf("POST /Contact")
            backs == CallsOf("stripe.customers.update")
        IN  /\ Cardinality(posts) <= 1
            /\ Cardinality(backs) <= 1
            /\ CallsOf("PUT /Contact/{id}") = {}
            /\ (calls[1].status = "ok" => Cardinality(posts) = 1)
            /\ (backs # {} => posts # {})
            /\ \A p \in posts :
                /\ calls[p].status = "ok" =>
                     \E w \in backs :
                        /\ w > p
                        /\ calls[w].id = calls[p].returned
                        /\ calls[w].body.customer = req.customer
                /\ calls[p].status # "ok" => backs = {}
            /\ \A w \in backs :
                 calls[w].status = "ok" => custMeta[req.customer] = calls[w].id
            /\ (outcome.state = "resolved" =>
                  /\ Cardinality(posts) = 1
                  /\ Cardinality(backs) = 1
                  /\ \A k \in posts \cup backs : calls[k].status = "ok")
C10_Witness ==
    /\ loc.handler = "onCustomerUpdated"
    /\ req.meta = JsUndefined
    /\ pc = "done"
    /\ outcome.state = "resolved"
    /\ custMeta[req.customer] >= FirstFreshId

\* C11: a customer.created / customer.updated event for a customer with a
\* linkage id makes one update call addressed to that contact (PUT
\* /Contact/{linkage id}), no contact-creation call and no write to the
\* customer's metadata.
C11_LinkedCustomerUpdatedInPlace ==
    (loc.handler = "onCustomerUpdated" /\ ~NoLinkage(req.meta)) =>
        LET puts == CallsOf("PUT /Contact/{id}")
        IN  /\ CallsOf("POST /Contact") = {}
            /\ CallsOf("stripe.customers.update") = {}
            /\ custMeta[req.customer] = req.meta
            /\ Cardinality(puts) <= 1
            /\ \A k \in puts : calls[k].id = req.meta
            /\ (calls[1].status = "ok" => Cardinality(puts) = 1)
            /\ (outcome.state = "resolved" =>
                  /\ Cardinality(SevDeskCalls) = 1
                  /\ \A k \in puts : calls[k].status = "ok")
C11_Witness ==
    /\ loc.handler = "onCustomerUpdated"
    /\ req.meta = ExistingId
    /\ pc = "done"
    /\ outcome.state = "resolved"
    /\ \E k \in CallsOf("PUT /Contact/{id}") : calls[k].id = ExistingId

\* C12: in the finalize handler the invoice's sevdesk_id is written only
\* after the invoice-creation call succeeded, with the id that call
\* returned; when the creation call fails the handler rejects with that
\* failure and the invoice's metadata stays as it was.
C12_InvoiceWriteBackAfterCreation ==
    loc.handler = "onInvoiceFinalized" =>
        LET saves == CallsOf("POST /Invoice/Factory/saveInvoice")
            backs == CallsOf("stripe.invoices.update")
        IN  /\ Cardinality(backs) <= 1
            /\ \A w \in backs :
                /\ \E s \in saves :
                     /\ s < w
                     /\ calls[s].status = "ok"
                     /\ calls[w].id = calls[s].returned
                /\ calls[w].body.invoice = req.invoice
                /\ calls[w].status = "ok"
                     => invMeta[req.invoice] = calls[w].id
            /\ (\A w \in backs : calls[w].status # "ok")
                  => invMeta[req.invoice] = req.meta
            /\ \A s \in saves :
                /\ calls[s].status = "ok" => backs # {}
                /\ calls[s].status = "failed" =>
                     /\ backs = {}
                     /\ outcome = Rejected("axios")
                     /\ invMeta[req.invoice] = req.meta
C12_Witness ==
    /\ loc.handler = "onInvoiceFinalized"
    /\ pc = "done"
    /\ \E s \in CallsOf("POST /Invoice/Factory/saveInvoice") :
           calls[s].status = "failed"
    /\ invMeta[req.invoice] = req.meta
C12_WitnessWritten ==
    /\ loc.handler = "onInvoiceFinalized"
    /\ pc = "done"
    /\ outcome.state = "resolved"
    /\ invMeta[req.invoice] >= FirstFreshId

\* C13: for an invoice with a linkage id the paid handler makes exactly one
\* booking call, PUT /Invoice/{linkage id}/bookAmount, with the invoice's
\* amount_paid as amount and SEVDESK_CHECK_ACCOUNT as checkAccount id.
C13_BookingCall ==
    (loc.handler = "onInvoicePaid" /\ ~NoLinkage(req.meta)) =>
        LET books == CallsOf("PUT /Invoice/{id}/bookAmount")
        IN  /\ Cardinality(books) <= 1
            /\ SevDeskCalls = books
            /\ \A k \in books :
                /\ calls[k].id = req.meta
                /\ calls[k].body.amount = req.amount_paid
                /\ calls[k].body.checkAccount = SEVDESK_CHECK_ACCOUNT
            /\ (calls # <<>> /\ calls[1].status = "ok"
                  => Cardinality(books) = 1)
            /\ (outcome.state = "resolved" => Cardinality(books) = 1)
C13_Witness ==
    /\ loc.handler = "onInvoicePaid"
    /\ req.meta = ExistingId
    /\ req.amount_paid = 1000
    /\ outcome.state = "resolved"
    /\ \E k \in CallsOf("PUT /Invoice/{id}/bookAmount") :
           calls[k].body.amount = 1000 /\ calls[k].id = ExistingId

\* C14: when the customer's first tax identifier is not of type eu_vat the
\* contact payload carries vatNumber = null and taxType = null; when it is
\* eu_vat the payload carries the identifier's value and taxType 'eu'.
C14_VatFields ==
    \A k \in CallsOf("POST /Contact") \cup CallsOf("PUT /Contact/{id}") :
        /\ req.tax_id = "eu_vat" =>
              calls[k].body.vatNumber = "value" /\ calls[k].body.taxType = "eu"
        /\ req.tax_id \notin {"none", "eu_vat"} =>
              calls[k].body.vatNumber = "null" /\ calls[k].body.taxType = "null"
C14_Witness ==
    /\ req.tax_id = "us_ein"
    /\ \E k \in CallsOf("PUT /Contact/{id}") : calls[k].body.taxType = "null"
C14_WitnessEuVat ==
    /\ req.tax_id = "eu_vat"
    /\ \E k \in CallsOf("POST /Contact") : calls[k].body.taxType = "eu"

\* C15: the invoice-creation request has taxType 'eu' for
\* customer_tax_exempt 'exempt', 'noteu' for 'reverse', 'default' otherwise.
C15_InvoiceTaxType ==
    \A s \in CallsOf("POST /Invoice/Factory/saveInvoice") :
        calls[s].body.taxType =
            CASE req.tax_exempt = "exempt" -> "eu"
              [] req.tax_exempt = "reverse" -> "noteu"
              [] OTHER -> "default"
C15_Witness ==
    /\ req.tax_exempt = "reverse"
    /\ \E s \in CallsOf("POST /Invoice/Factory/saveInvoice") :
           calls[s].body.taxType = "noteu"

C16_WitnessFinalized ==
    /\ outcome.state = "resolved"
    /\ loc.handler = "onInvoiceFinalized"
    /\ pc = "done"

\* C17: the finalize handler creates an accounting invoice on every
\* successful run, whether or not the invoice already carries a linkage id:
\* after n deliveries of invoice.finalized for an invoice, all of them
\* successful, n accounting invoices exist and the invoice's sevdesk_id is
\* the id of the one created last.
LastCreated(ids) == CHOOSE m \in ids : \A x \in ids : x <= m
C17_RedeliveryDuplicates ==
    /\ \A i \in Invoices : Cardinality(sevdesk.invoices) >= finalizedOk[i]
    /\ \A i \in Invoices :
         (pc = "done" /\ nreq > 0 /\ finalizedOk[i] = nreq) =>
            /\ Cardinality(sevdesk.invoices) = nreq
            /\ invMeta[i] = LastCreated(sevdesk.invoices)
    /\ (loc.handler = "onInvoiceFinalized" /\ outcome.state = "resolved") =>
            /\ loc.responseId \in sevdesk.invoices
            /\ loc.responseId # req.meta
            /\ invMeta[req.invoice] = loc.responseId
C17_Witness ==
    /\ pc = "done"
    /\ nreq > 1
    /\ finalizedOk["in_1"] = nreq
    /\ Cardinality(sevdesk.invoices) = nreq
    /\ req.meta \in sevdesk.invoices
    /\ invMeta["in_1"] # req.meta

\* C18: the finalize handler does not wait for the tax-rate lookups: in the
\* step that issues the invoice-creation call every line with exactly one
\* tax rate has its lookup still unresolved, and the request's items carry
\* taxRate = null.
OneTaxRateLines == {i \in DOMAIN req.lines : req.lines[i] = 1}
C18_CreationDoesNotAwaitLookup ==
    [][(pc # "invoice_post" /\ pc' = "invoice_post") =>
        /\ lookups'.pending = {i \in DOMAIN req'.lines : req'.lines[i] = 1}
        /\ calls'[Len(calls')].op = "POST /Invoice/Factory/saveInvoice"
        /\ \A i \in DOMAIN req'.lines :
              calls'[Len(calls')].body.invoicePosSave[i].taxRate = JsNull]_vars
C18_Witness ==
    /\ pc = "invoice_post"
    /\ OneTaxRateLines # {}
    /\ lookups.pending = OneTaxRateLines
    /\ \E s \in CallsOf("POST /Invoice/Factory/saveInvoice") :
         \A i \in OneTaxRateLines :
            calls[s].body.invoicePosSave[i].taxRate = JsNull

\* C19: every line item of every invoice-creation request has taxRate =
\* null, whatever the lookups return and whenever they settle.
C19_ItemsNeverCarryTaxRate ==
    \A s \in CallsOf("POST /Invoice/Factory/saveInvoice") :
        /\ DOMAIN calls[s].body.invoicePosSave = DOMAIN req.lines
        /\ \A i \in DOMAIN req.lines :
              calls[s].body.invoicePosSave[i].taxRate = JsNull
C19_Witness ==
    /\ \E i \in OneTaxRateLines \cap DOMAIN lookups.taxRate :
         /\ i \notin lookups.pending
         /\ lookups.taxRate[i] = 19
    /\ \E s \in CallsOf("POST /Invoice/Factory/saveInvoice") :
         /\ calls[s].status = "ok"
         /\ \A i \in DOMAIN req.lines :
               calls[s].body.invoicePosSave[i].taxRate = JsNull
C19_WitnessResolvedBeforeSettled ==
    /\ pc = "invoice_post"
    /\ \E i \in OneTaxRateLines \cap DOMAIN lookups.taxRate :
         lookups.taxRate[i] = 19

\* C20: every SevDesk call of a handler run is preceded in that run by a
\* successful retrieval of the API key, one retrieval per client and one
\* call per client; a failed retrieval ends the run, rejected, with no
\* SevDesk call made.
SecretsBefore(k) ==
    {s \in CallsOf("secret") : s < k /\ calls[s].status = "ok"}
C20_KeyFetchedPerClient ==
    /\ \A k \in SevDeskCalls :
        /\ SecretsBefore(k) # {}
        /\ Cardinality(SecretsBefore(k))
             >= Cardinality({j \in SevDeskCalls : j <= k})
    /\ \A k \in CallsOf("POST /Contact") \cup CallsOf("PUT /Contact/{id}") :
         calls[k - 1].op = "secret" /\ calls[k - 1].status = "ok"
    /\ \A s \in CallsOf("secret") :
         calls[s].status = "failed" =>
            /\ SevDeskCalls = {}
            /\ s = Len(calls)
            /\ outcome = Rejected("secret")
    /\ (calls # <<>> => calls[1].op = "secret")
C20_Witness ==
    /\ loc.handler = "onInvoiceFinalized"
    /\ Cardinality(CallsOf("secret")) = 2
    /\ calls[Len(calls)].status = "failed"
    /\ calls[Len(calls)].op = "secret"
    /\ pc = "done"
C20_WitnessCall ==
    /\ loc.handler = "onInvoiceFinalized"
    /\ Cardinality(CallsOf("secret")) = 2
    /\ CallsOf("POST /Contact") # {}

====
